---------------------------- MODULE Spec2Model ----------------------------
(***************************************************************************)
(* Client half of the networked box game (src/src/client.rs).              *)
(*                                                                         *)
(* The client registers its systems in the engine's schedules              *)
(* (ExampleClientPlugin::build).  One rendering frame runs                 *)
(*   First, PreUpdate, the fixed main loop (zero or more fixed steps, each *)
(*   FixedPreUpdate then FixedUpdate then FixedPostUpdate), Update and     *)
(*   PostUpdate.                                                           *)
(* Systems registered in one schedule without an ordering constraint run   *)
(* in any order; Commands issued by a system are applied when its schedule *)
(* ends.  Every system is one action; the engine's steps between them      *)
(* (First, RunFixedTick, ApplyCommand, EndSchedule, PostUpdate) and the    *)
(* replication layer's steps (ConnectionEstablished, ServerAck,            *)
(* RemoteSpawn, RollbackWindowClosed, write_input_event) are actions too.  *)
(***************************************************************************)
EXTENDS Integers, Sequences, FiniteSets, TLC

\* ------------------------------------------------------------------ bounds
\* Fixed steps over a whole run, and fixed steps inside one rendering frame.
MaxTick == 3
MaxTicksPerFrame == 2

\* ------------------------------------------------------- program constants
\* set_s(0.4) and set_s(0.1), in tenths.
PredictedSaturation == 4
InterpolatedSaturation == 1
\* color_from_id (shared.rs): saturation 0.8 in tenths, hue (id * 30) % 360.
DefaultSaturation == 8
\* MOVE_SPEED of shared_movement_behaviour (shared.rs): one fixed step.
Step == 1

\* metadata.client_id: None, or the identity the session layer assigned.
NoId == 0
LocalId == 7
RemoteId == 3

\* The KeyCodes buffer_input looks at.
KeyCodes ==
    {"KeyW", "ArrowUp", "KeyS", "ArrowDown", "KeyA", "ArrowLeft",
     "KeyD", "ArrowRight", "KeyK", "Space"}

\* The key sets held down during a frame of the game model (the encoder
\* itself is checked on every subset of KeyCodes under SpecEncoder).
KeyChoices ==
    {{}, {"Space"}, {"KeyK"}, {"KeyD"}, {"ArrowUp", "KeyA"}}

\* The window as cursor_movement sees it: none, or its size and the raw
\* pointer position (none when the pointer is outside).
NoWindow == [present |-> FALSE, width |-> 0, height |-> 0,
             has_cursor |-> FALSE, x |-> 0, y |-> 0]
Windows ==
    {NoWindow,
     [present |-> TRUE, width |-> 4, height |-> 2,
      has_cursor |-> FALSE, x |-> 0, y |-> 0],
     [present |-> TRUE, width |-> 4, height |-> 2,
      has_cursor |-> TRUE, x |-> 3, y |-> 0]}

VARIABLES
    schedule,         \* the schedule the engine is running
    pending,          \* systems of that schedule that have not run yet
    commands,         \* Commands queued by the systems of that schedule
    tick,             \* tick_manager.tick()
    frame_ticks,      \* fixed steps run in the current frame
    client_id,        \* metadata.client_id
    metadata_changed, \* metadata.is_changed(), as spawn_cursor sees it
    keypress,         \* Res<ButtonInput<KeyCode>>: the keys held down
    window,           \* the primary window, as cursor_movement found it
    input_buffer,     \* the input buffer's newest entry: [tick, input]
    submitted,        \* the tick of every add_input call, in order
    events_a,         \* Events<InputEvent<Inputs>>: the older buffer
    events_b,         \* Events<InputEvent<Inputs>>: the newer buffer
    event_count,      \* Events::event_count
    signal,           \* EventUpdateSignal: a fixed step ran since the last update
    readers,          \* each EventReader's last_event_count
    world,            \* entity -> its components
    next_entity,      \* the next free entity
    ran,              \* the systems that have run since the tick last advanced
    applied           \* the events player_movement applied in its last run

vars ==
    <<schedule, pending, commands, tick, frame_ticks, client_id,
      metadata_changed, keypress, window, input_buffer, submitted, events_a,
      events_b, event_count, signal, readers, world, next_entity, ran, applied>>

\* -------------------------------------------------------------- the intents
\* enum Inputs { Direction(Direction), Delete, Spawn, None } (protocol.rs);
\* Absent stands for an InputEvent whose input() is None.
Inputs_Direction(d) ==
    [type |-> "Direction", up |-> d.up, down |-> d.down,
     left |-> d.left, right |-> d.right]

Flagless(t) ==
    [type |-> t, up |-> FALSE, down |-> FALSE, left |-> FALSE, right |-> FALSE]

Inputs_Delete == Flagless("Delete")
Inputs_Spawn == Flagless("Spawn")
Inputs_None == Flagless("None")
Absent == Flagless("Absent")

\* Direction::is_none (protocol.rs): no flag is set.
is_none(d) == ~d.up /\ ~d.down /\ ~d.left /\ ~d.right

\* EncodeInput with the Space test placed before the KeyK test.
EncodeInput_SpawnFirst(keys) ==
    LET direction ==
            [up    |-> ("KeyW" \in keys) \/ ("ArrowUp" \in keys),
             down  |-> ("KeyS" \in keys) \/ ("ArrowDown" \in keys),
             left  |-> ("KeyA" \in keys) \/ ("ArrowLeft" \in keys),
             right |-> ("KeyD" \in keys) \/ ("ArrowRight" \in keys)]
    IN  IF ~is_none(direction) THEN Inputs_Direction(direction)
        ELSE IF "Space" \in keys THEN Inputs_Spawn
        ELSE IF "KeyK" \in keys THEN Inputs_Delete
        ELSE Inputs_None

\* buffer_input, lines 125-153: the input it hands to add_input.
EncodeInput(keys) ==
    LET direction ==
            [up    |-> ("KeyW" \in keys) \/ ("ArrowUp" \in keys),
             down  |-> ("KeyS" \in keys) \/ ("ArrowDown" \in keys),
             left  |-> ("KeyA" \in keys) \/ ("ArrowLeft" \in keys),
             right |-> ("KeyD" \in keys) \/ ("ArrowRight" \in keys)]
    IN  IF ~is_none(direction) THEN Inputs_Direction(direction)
        ELSE IF "KeyK" \in keys THEN Inputs_Delete
        ELSE IF "Space" \in keys THEN Inputs_Spawn
        ELSE Inputs_None

\* input_buffer.get(t): the input added for tick t, if any (the model keeps
\* the newest entry; nothing reads an older one).
BufferGet(t) ==
    IF input_buffer.tick = t THEN input_buffer.input ELSE Absent

\* ------------------------------------------------------------- the schedules
\* Registration with player_movement added to Update, like spawn_player,
\* instead of FixedUpdate.
Registration_MovementInUpdate ==
    [spawn_cursor              |-> "PreUpdate",
     buffer_input              |-> "FixedPreUpdate",
     write_input_event         |-> "FixedPreUpdate",
     player_movement           |-> "Update",
     delete_player             |-> "FixedUpdate",
     cursor_movement           |-> "Update",
     spawn_player              |-> "Update",
     handle_predicted_spawn    |-> "Update",
     handle_interpolated_spawn |-> "Update"]

\* Registration with buffer_input added to FixedUpdate beside the systems
\* that consume its input, instead of FixedPreUpdate.
Registration_BufferInFixedUpdate ==
    [spawn_cursor              |-> "PreUpdate",
     buffer_input              |-> "FixedUpdate",
     write_input_event         |-> "FixedPreUpdate",
     player_movement           |-> "FixedUpdate",
     delete_player             |-> "FixedUpdate",
     cursor_movement           |-> "Update",
     spawn_player              |-> "Update",
     handle_predicted_spawn    |-> "Update",
     handle_interpolated_spawn |-> "Update"]

\* ExampleClientPlugin::build: the schedule each system is registered in.
\* write_input_event is the input plugin's system, chained after
\* InputSystemSet::BufferInputs in FixedPreUpdate.
Registration ==
    [spawn_cursor              |-> "PreUpdate",
     buffer_input              |-> "FixedPreUpdate",
     write_input_event         |-> "FixedPreUpdate",
     player_movement           |-> "FixedUpdate",
     delete_player             |-> "FixedUpdate",
     cursor_movement           |-> "Update",
     spawn_player              |-> "Update",
     handle_predicted_spawn    |-> "Update",
     handle_interpolated_spawn |-> "Update"]

SystemsIn(s) == {sys \in DOMAIN Registration : Registration[sys] = s}

\* The ordering constraints inside a schedule: BufferInputs is chained
\* before WriteInputEvent; nothing else is ordered.
MustFollow(sys) ==
    IF sys = "write_input_event" THEN {"buffer_input"} ELSE {}

CanRun(sys) ==
    /\ sys \in pending
    /\ Registration[sys] = schedule
    /\ MustFollow(sys) \cap pending = {}

\* ----------------------------------------------------------- the event queue
\* EventReader::read: the events the reader has not seen yet, oldest first.
Unread(sys) ==
    SelectSeq(events_a \o events_b, LAMBDA e : e.id >= readers[sys])

\* --------------------------------------------------------------- the world
NoMarker == [present |-> FALSE, death_tick |-> 0]

\* color_from_id (shared.rs).
color_from_id(id) == [h |-> (id * 30) % 360, s |-> DefaultSaturation]

Blank ==
    [kind |-> "player", owner |-> NoId, pos |-> <<0, 0>>,
     color |-> color_from_id(NoId),
     should_be_predicted |-> FALSE, predicted |-> FALSE, confirmed_entity |-> 0,
     confirmed |-> FALSE, interpolated |-> FALSE,
     added_predicted |-> FALSE, added_interpolated |-> FALSE,
     marker |-> NoMarker, born |-> 0, spawned_at |-> 0, changed |-> FALSE]

\* PlayerBundle::new(id, position, color) (protocol.rs).
PlayerBundle(id, position, color) ==
    [Blank EXCEPT !.kind = "player", !.owner = id, !.pos = position,
                  !.color = color]

\* CursorBundle::new(id, position, color) (protocol.rs).
CursorBundle(id, position, color) ==
    [Blank EXCEPT !.kind = "cursor", !.owner = id, !.pos = position,
                  !.color = color, !.changed = TRUE]

Entities == DOMAIN world
Players == {e \in Entities : world[e].kind = "player"}
Cursors == {e \in Entities : world[e].kind = "cursor"}

Init ==
    /\ schedule = "First"
    /\ pending = {}
    /\ commands = <<>>
    /\ tick = 0
    /\ frame_ticks = 0
    /\ client_id = NoId
    /\ metadata_changed = TRUE
    /\ keypress = {}
    /\ window = NoWindow
    /\ input_buffer = [tick |-> 0, input |-> Absent]
    /\ submitted = <<>>
    /\ events_a = <<>>
    /\ events_b = <<>>
    /\ event_count = 0
    /\ signal = FALSE
    /\ readers = [sys \in {"player_movement", "spawn_player", "delete_player"} |-> 0]
    /\ world = <<>>
    /\ next_entity = 1
    /\ ran = {}
    /\ applied = <<>>


\* A system has run: it leaves the pending set.
Ran(sys) ==
    /\ pending' = pending \ {sys}
    /\ ran' = ran \cup {sys}

\* ------------------------------------------------------------ engine steps
\* First: event_update_system swaps the event buffers when a fixed step ran
\* since the last swap (events live for two swaps).
First ==
    /\ schedule = "First"
    /\ IF signal
          THEN events_a' = events_b /\ events_b' = <<>>
          ELSE UNCHANGED <<events_a, events_b>>
    /\ signal' = FALSE
    /\ frame_ticks' = 0
    /\ schedule' = "PreUpdate"
    /\ pending' = SystemsIn("PreUpdate")
    /\ UNCHANGED <<commands, tick, client_id, metadata_changed, keypress,
                   window, input_buffer, submitted, event_count, readers, world,
                   next_entity, ran, applied>>

\* The fixed main loop runs one more fixed step: TickUpdate advances the tick.
RunFixedTick ==
    /\ schedule = "RunFixedMainLoop"
    /\ frame_ticks < MaxTicksPerFrame
    /\ tick < MaxTick
    /\ tick' = tick + 1
    /\ frame_ticks' = frame_ticks + 1
    /\ schedule' = "FixedPreUpdate"
    /\ pending' = SystemsIn("FixedPreUpdate")
    /\ ran' = {}
    /\ applied' = <<>>
    /\ UNCHANGED <<commands, client_id, metadata_changed, keypress, window,
                   input_buffer, submitted, events_a, events_b, event_count, signal, readers,
                   world, next_entity>>

\* The fixed main loop is done for this frame: Update runs.  Nothing reads
\* the keys after the fixed steps, so the model forgets them here.
RunUpdate ==
    /\ schedule = "RunFixedMainLoop"
    /\ schedule' = "Update"
    /\ pending' = SystemsIn("Update")
    /\ keypress' = {}
    /\ UNCHANGED <<commands, tick, frame_ticks, client_id, metadata_changed,
                   window, input_buffer, submitted, events_a, events_b, event_count,
                   signal, readers, world, next_entity, ran, applied>>

\* commands.spawn(bundle), applied.
Spawned(w, bundle) == (next_entity :> bundle) @@ w

\* prediction_despawn::<MyProtocol>(), applied: a predicted or pre-predicted
\* entity is not removed; it gets the despawn marker and keeps its components.
PredictionDespawned(w, e) ==
    IF e \in DOMAIN w /\ (w[e].predicted \/ w[e].should_be_predicted)
    THEN [w EXCEPT ![e].marker = [present |-> TRUE, death_tick |-> tick]]
    ELSE w

\* commands.entity(e).despawn(), applied: the entity is gone at once.
Despawned(w, e) == [x \in DOMAIN w \ {e} |-> w[x]]

\* The schedule's systems have run: its queued Commands are applied in order.
ApplyCommand ==
    /\ pending = {}
    /\ commands # <<>>
    /\ LET c == Head(commands)
       IN  IF c.op = "spawn"
           THEN /\ world' = Spawned(world, c.bundle)
                /\ next_entity' = next_entity + 1
           ELSE /\ world' = IF c.op = "prediction_despawn"
                            THEN PredictionDespawned(world, c.entity)
                            ELSE Despawned(world, c.entity)
                /\ UNCHANGED next_entity
    /\ commands' = Tail(commands)
    /\ UNCHANGED <<schedule, pending, tick, frame_ticks, client_id,
                   metadata_changed, keypress, window, input_buffer, submitted, events_a,
                   events_b, event_count, signal, readers, ran, applied>>

\* The schedule is over.  The keyboard is sampled in PreUpdate, once per
\* frame; FixedPostUpdate signals that a fixed step ran; the window
\* cursor_movement found is forgotten with the end of Update.
EndSchedule ==
    /\ pending = {}
    /\ commands = <<>>
    /\ schedule \in {"PreUpdate", "FixedPreUpdate", "FixedUpdate", "Update"}
    /\ schedule' = CASE schedule = "PreUpdate" -> "RunFixedMainLoop"
                     [] schedule = "FixedPreUpdate" -> "FixedUpdate"
                     [] schedule = "FixedUpdate" -> "RunFixedMainLoop"
                     [] schedule = "Update" -> "PostUpdate"
    /\ pending' = IF schedule = "FixedPreUpdate" THEN SystemsIn("FixedUpdate")
                  ELSE {}
    /\ signal' = IF schedule = "FixedUpdate" THEN TRUE ELSE signal
    /\ IF schedule = "PreUpdate" THEN keypress' \in KeyChoices
                                 ELSE UNCHANGED keypress
    /\ window' = IF schedule = "Update" THEN NoWindow ELSE window
    /\ UNCHANGED <<commands, tick, frame_ticks, client_id, metadata_changed,
                   input_buffer, submitted, events_a, events_b, event_count,
                   readers, world, next_entity, ran, applied>>

\* ------------------------------------------------- the replication layer
\* Messages are received in PreUpdate, before spawn_cursor
\* (spawn_cursor.after(MainSet::ReceiveFlush)).
Receiving == schedule = "PreUpdate" /\ "spawn_cursor" \in pending

\* The handshake completes: the session layer sets metadata.client_id.
ConnectionEstablished ==
    /\ Receiving
    /\ client_id = NoId
    /\ client_id' = LocalId
    /\ metadata_changed' = TRUE
    /\ UNCHANGED <<schedule, pending, commands, tick, frame_ticks, keypress,
                   window, input_buffer, submitted, events_a, events_b, event_count, signal,
                   readers, world, next_entity, ran, applied>>

\* The server acknowledges a pre-predicted entity: its Confirmed copy is
\* spawned and the entity becomes that copy's Predicted version.
ServerAck(e) ==
    /\ Receiving
    /\ e \in Players
    /\ world[e].predicted /\ world[e].should_be_predicted
    /\ world[e].confirmed_entity = 0
    /\ world' = Spawned([world EXCEPT ![e].confirmed_entity = next_entity],
                        [PlayerBundle(world[e].owner, world[e].pos,
                                      color_from_id(world[e].owner))
                            EXCEPT !.confirmed = TRUE])
    /\ next_entity' = next_entity + 1
    /\ UNCHANGED <<schedule, pending, commands, tick, frame_ticks, client_id,
                   metadata_changed, keypress, window, input_buffer, submitted, events_a,
                   events_b, event_count, signal, readers, ran, applied>>

\* Another client's player is replicated: its Confirmed copy and its
\* Interpolated copy are spawned.
RemoteSpawn ==
    /\ Receiving
    /\ \A e \in Entities : world[e].owner # RemoteId
    /\ LET bundle == PlayerBundle(RemoteId, <<0, 0>>, color_from_id(RemoteId))
       IN  world' = (next_entity :> [bundle EXCEPT !.confirmed = TRUE])
                    @@ (next_entity + 1 :>
                          [bundle EXCEPT !.interpolated = TRUE,
                                         !.added_interpolated = TRUE])
                    @@ world
    /\ next_entity' = next_entity + 2
    /\ UNCHANGED <<schedule, pending, commands, tick, frame_ticks, client_id,
                   metadata_changed, keypress, window, input_buffer, submitted, events_a,
                   events_b, event_count, signal, readers, ran, applied>>

\* The rollback window of a despawn request has closed: the marked entity
\* and its Confirmed copy leave the world.
RollbackWindowClosed(e) ==
    /\ Receiving
    /\ e \in Entities
    /\ world[e].marker.present
    /\ world' = [x \in Entities \ {e, world[e].confirmed_entity} |-> world[x]]
    /\ UNCHANGED <<schedule, pending, commands, tick, frame_ticks, client_id,
                   metadata_changed, keypress, window, input_buffer, submitted, events_a,
                   events_b, event_count, signal, readers, next_entity, ran,
                   applied>>

\* write_input_event (the input plugin, FixedPreUpdate after BufferInputs):
\* one InputEvent per fixed step, carrying the input buffered for the tick.
\* ready and owned note what held when the event was delivered: the identity
\* was set, and a player with that identity existed.
write_input_event ==
    /\ CanRun("write_input_event")
    /\ events_b' = Append(events_b,
                          [id |-> event_count, tick |-> tick,
                           input |-> BufferGet(tick),
                           ready |-> client_id # NoId,
                           owned |-> \E e \in DOMAIN world :
                                        /\ world[e].kind = "player"
                                        /\ client_id # NoId
                                        /\ world[e].owner = client_id])
    /\ event_count' = event_count + 1
    /\ Ran("write_input_event")
    /\ UNCHANGED <<schedule, commands, tick, frame_ticks, client_id,
                   metadata_changed, keypress, window, input_buffer, submitted, events_a,
                   signal, readers, world, next_entity, applied>>

\* PostUpdate, after the replication send: the send has seen every change
\* of the frame, so no component counts as changed for it any more; a newly
\* spawned pre-predicted entity gets Predicted { confirmed_entity: None }.
PostUpdate ==
    /\ schedule = "PostUpdate"
    /\ world' = [e \in Entities |->
                    IF world[e].should_be_predicted /\ ~world[e].predicted
                       /\ ~world[e].confirmed
                    THEN [world[e] EXCEPT !.predicted = TRUE,
                                          !.added_predicted = TRUE,
                                          !.changed = FALSE]
                    ELSE [world[e] EXCEPT !.changed = FALSE]]
    /\ schedule' = "First"
    /\ UNCHANGED <<pending, commands, tick, frame_ticks, client_id,
                   metadata_changed, keypress, window, input_buffer, submitted, events_a,
                   events_b, event_count, signal, readers, next_entity, ran,
                   applied>>

\* ------------------------------------------------------ the client's systems
\* spawn_cursor, lines 95-116 (the TextBundle it also spawns is display only).
spawn_cursor ==
    /\ CanRun("spawn_cursor")
    /\ commands' =
          IF metadata_changed /\ client_id # NoId
          THEN Append(commands,
                      [op |-> "spawn", entity |-> 0,
                       bundle |-> CursorBundle(client_id, <<0, 0>>,
                                               color_from_id(client_id))])
          ELSE commands
    /\ metadata_changed' = FALSE
    /\ Ran("spawn_cursor")
    /\ UNCHANGED <<schedule, tick, frame_ticks, client_id, keypress, window,
                   input_buffer, submitted, events_a, events_b, event_count, signal, readers,
                   world, next_entity, applied>>

\* InputTick off by one: the tick before the current one.
InputTick_Previous == tick - 1

\* buffer_input, line 124: let tick = tick_manager.tick().
InputTick == tick

\* buffer_input, lines 119-154: every return path is one add_input(input, tick).
buffer_input ==
    /\ CanRun("buffer_input")
    /\ input_buffer' = [tick |-> InputTick, input |-> EncodeInput(keypress)]
    /\ submitted' = Append(submitted, InputTick)
    /\ Ran("buffer_input")
    /\ UNCHANGED <<schedule, commands, tick, frame_ticks, client_id,
                   metadata_changed, keypress, window, events_a, events_b,
                   event_count, signal, readers, world, next_entity, applied>>

\* <Components as SyncMetadata<PlayerPosition>>::mode() (protocol.rs).
PlayerPositionMode == "Full"

\* shared_movement_behaviour (shared.rs): each set flag moves the position by
\* one step on its axis; every other input leaves it alone.
shared_movement_behaviour(position, input) ==
    IF input.type = "Direction"
    THEN <<position[1] + (IF input.right THEN Step ELSE 0)
                       - (IF input.left THEN Step ELSE 0),
           position[2] + (IF input.up THEN Step ELSE 0)
                       - (IF input.down THEN Step ELSE 0)>>
    ELSE position

\* player_movement, lines 167-175, for one position: the events in order,
\* those without an input skipped.
RECURSIVE MoveAll(_, _)
MoveAll(position, evs) ==
    IF evs = <<>> THEN position
    ELSE MoveAll(IF Head(evs).input # Absent
                 THEN shared_movement_behaviour(position, Head(evs).input)
                 ELSE position,
                 Tail(evs))

\* MovementQuery without a role filter: Query<&mut PlayerPosition>.
MovementQuery_AllPlayers(w) ==
    {e \in DOMAIN w : w[e].kind = "player"}

\* MovementQuery filtered With<Confirmed> instead of With<Predicted>.
MovementQuery_Confirmed(w) ==
    {e \in DOMAIN w : w[e].kind = "player" /\ w[e].confirmed}

\* player_movement, line 160: Query<&mut PlayerPosition, With<Predicted>>.
MovementQuery(w) ==
    {e \in DOMAIN w : w[e].kind = "player" /\ w[e].predicted}

\* player_movement, lines 159-176.
player_movement ==
    /\ CanRun("player_movement")
    /\ IF PlayerPositionMode # "Full"
       THEN UNCHANGED <<world, readers, applied>>
       ELSE LET evs == Unread("player_movement")
            IN  /\ world' = [e \in Entities |->
                                IF e \in MovementQuery(world)
                                THEN [world[e] EXCEPT
                                         !.pos = MoveAll(world[e].pos, evs)]
                                ELSE world[e]]
                /\ readers' = [readers EXCEPT !["player_movement"] = event_count]
                /\ applied' = evs
    /\ Ran("player_movement")
    /\ UNCHANGED <<schedule, commands, tick, frame_ticks, client_id,
                   metadata_changed, keypress, window, input_buffer, submitted, events_a,
                   events_b, event_count, signal, next_entity>>

\* SpawnBundle without the ShouldBePredicted marker.
SpawnBundle_Unmarked(id, ev) ==
    [PlayerBundle(id, <<0, 0>>, color_from_id(id))
        EXCEPT !.born = ev.tick, !.spawned_at = tick]

\* spawn_player, lines 201-207: the bundle spawned for a Spawn input:
\* (PlayerBundle::new(client_id, Vec2::ZERO, color_from_id(client_id)),
\* ShouldBePredicted::default()).  born notes the tick of that input and
\* spawned_at the tick at which spawn_player read it.
SpawnBundle(id, ev) ==
    [PlayerBundle(id, <<0, 0>>, color_from_id(id))
        EXCEPT !.should_be_predicted = TRUE, !.born = ev.tick,
               !.spawned_at = tick]

\* spawn_player, lines 196-212: one spawn command per unread Spawn input.
RECURSIVE SpawnCommands(_, _)
SpawnCommands(id, evs) ==
    IF evs = <<>> THEN <<>>
    ELSE (IF Head(evs).input = Inputs_Spawn
          THEN <<[op |-> "spawn", entity |-> 0,
                  bundle |-> SpawnBundle(id, Head(evs))]>>
          ELSE <<>>)
         \o SpawnCommands(id, Tail(evs))

\* spawn_player, lines 190-195: a player with our PlayerId already exists
\* (Query<&PlayerId, With<PlayerPosition>>).
OwnsPlayer(w, id) ==
    \E e \in DOMAIN w : w[e].kind = "player" /\ w[e].owner = id

\* spawn_player, lines 179-213.  Both early returns leave the EventReader
\* where it was.
spawn_player ==
    /\ CanRun("spawn_player")
    /\ IF client_id = NoId \/ OwnsPlayer(world, client_id)
       THEN UNCHANGED <<commands, readers>>
       ELSE /\ commands' = commands
                           \o SpawnCommands(client_id, Unread("spawn_player"))
            /\ readers' = [readers EXCEPT !["spawn_player"] = event_count]
    /\ Ran("spawn_player")
    /\ UNCHANGED <<schedule, tick, frame_ticks, client_id, metadata_changed,
                   keypress, window, input_buffer, submitted, events_a, events_b, event_count,
                   signal, world, next_entity, applied>>

\* DeleteTargets without the role filters: every player with our PlayerId.
DeleteTargets_NoRoleFilter(w, id) ==
    {e \in DOMAIN w : w[e].kind = "player" /\ w[e].owner = id}

\* DeleteTargets with spawn_player's query (no Without<Interpolated>) and
\* no comparison of the PlayerId.
DeleteTargets_AnyPlayer(w, id) ==
    {e \in DOMAIN w : w[e].kind = "player" /\ ~w[e].confirmed}

\* delete_player, lines 220-227 and 239: the entities of its query,
\* (With<PlayerPosition>, Without<Confirmed>, Without<Interpolated>), whose
\* PlayerId is ours.
DeleteTargets(w, id) ==
    {e \in DOMAIN w : /\ w[e].kind = "player"
                      /\ ~w[e].confirmed /\ ~w[e].interpolated
                      /\ w[e].owner = id}

\* A set of entities as a sequence, lowest first (the commands of one Delete
\* input are all alike, so the query's iteration order does not show).
RECURSIVE Ascending(_)
Ascending(S) ==
    IF S = {} THEN <<>>
    ELSE LET m == CHOOSE x \in S : \A y \in S : x <= y
         IN  <<m>> \o Ascending(S \ {m})

\* DespawnRequest as a plain despawn() of the entity.
DespawnRequest_Hard(e) == [op |-> "despawn", entity |-> e, bundle |-> Blank]

\* delete_player, line 244: entity_mut.prediction_despawn::<MyProtocol>().
DespawnRequest(e) == [op |-> "prediction_despawn", entity |-> e, bundle |-> Blank]

RECURSIVE RequestsFor(_)
RequestsFor(es) ==
    IF es = <<>> THEN <<>>
    ELSE <<DespawnRequest(Head(es))>> \o RequestsFor(Tail(es))

\* delete_player, lines 234-253: for every unread Delete input, a despawn
\* request for every target (commands.get_entity finds each: the world does
\* not change while the system runs).
RECURSIVE DeleteCommands(_, _)
DeleteCommands(targets, evs) ==
    IF evs = <<>> THEN <<>>
    ELSE (IF Head(evs).input = Inputs_Delete
          THEN RequestsFor(Ascending(targets))
          ELSE <<>>)
         \o DeleteCommands(targets, Tail(evs))

\* delete_player, lines 216-254.
delete_player ==
    /\ CanRun("delete_player")
    /\ IF client_id = NoId
       THEN UNCHANGED <<commands, readers>>
       ELSE /\ commands' = commands
                           \o DeleteCommands(DeleteTargets(world, client_id),
                                             Unread("delete_player"))
            /\ readers' = [readers EXCEPT !["delete_player"] = event_count]
    /\ Ran("delete_player")
    /\ UNCHANGED <<schedule, tick, frame_ticks, client_id, metadata_changed,
                   keypress, window, input_buffer, submitted, events_a, events_b, event_count,
                   signal, world, next_entity, applied>>

\* window_relative_mouse_position without the inversion of the vertical axis.
window_relative_mouse_position_NotInverted(w) ==
    IF ~w.has_cursor THEN [some |-> FALSE, pos |-> <<0, 0>>]
    ELSE [some |-> TRUE,
          pos |-> <<w.x - (w.width \div 2), w.y - (w.height \div 2)>>]

\* window_relative_mouse_position, lines 290-299 (the window sizes are even).
window_relative_mouse_position(w) ==
    IF ~w.has_cursor THEN [some |-> FALSE, pos |-> <<0, 0>>]
    ELSE [some |-> TRUE,
          pos |-> <<w.x - (w.width \div 2), (w.y - (w.height \div 2)) * (-1)>>]

\* CursorLoop assigning through the mutable reference (*cursor_position =
\* ...) instead of set_if_neq: every assignment marks the component changed.
RECURSIVE CursorLoop_AlwaysWrite(_, _, _, _)
CursorLoop_AlwaysWrite(w, es, id, win) ==
    IF es = <<>> THEN w
    ELSE LET e == Head(es)
             mouse == window_relative_mouse_position(win)
         IN  IF w[e].owner # id THEN w
             ELSE IF win.present /\ mouse.some
             THEN CursorLoop_AlwaysWrite([w EXCEPT ![e].pos = mouse.pos,
                                                   ![e].changed = TRUE],
                                         Tail(es), id, win)
             ELSE CursorLoop_AlwaysWrite(w, Tail(es), id, win)

\* cursor_movement, lines 276-286: the loop over the query in one iteration
\* order; a cursor of another PlayerId ends the whole loop (return).
RECURSIVE CursorLoop(_, _, _, _)
CursorLoop(w, es, id, win) ==
    IF es = <<>> THEN w
    ELSE LET e == Head(es)
             mouse == window_relative_mouse_position(win)
         IN  IF w[e].owner # id THEN w
             ELSE IF win.present /\ mouse.some /\ w[e].pos # mouse.pos
             THEN CursorLoop([w EXCEPT ![e].pos = mouse.pos,
                                       ![e].changed = TRUE],
                             Tail(es), id, win)
             ELSE CursorLoop(w, Tail(es), id, win)

\* cursor_movement, lines 266-269: the cursors that are neither Confirmed
\* nor Interpolated.
CursorQuery(w) ==
    {e \in DOMAIN w : w[e].kind = "cursor" /\ ~w[e].confirmed
                      /\ ~w[e].interpolated}

\* The iteration orders of a query.
Orders(S) ==
    {f \in [1..Cardinality(S) -> S] :
        \A i, j \in 1..Cardinality(S) : i # j => f[i] # f[j]}

\* cursor_movement, lines 263-287.
cursor_movement ==
    /\ CanRun("cursor_movement")
    /\ window' \in Windows
    /\ IF client_id = NoId
       THEN UNCHANGED world
       ELSE \E es \in Orders(CursorQuery(world)) :
               world' = CursorLoop(world, es, client_id, window')
    /\ Ran("cursor_movement")
    /\ UNCHANGED <<schedule, commands, tick, frame_ticks, client_id,
                   metadata_changed, keypress, input_buffer, submitted, events_a,
                   events_b, event_count, signal, readers, next_entity, applied>>

\* handle_predicted_spawn scaling the saturation it finds (by the ratio of
\* the predicted level to the default) instead of setting it.
handle_predicted_spawn_Cumulative ==
    /\ CanRun("handle_predicted_spawn")
    /\ world' = [e \in Entities |->
                    IF world[e].predicted /\ world[e].added_predicted
                    THEN [world[e] EXCEPT
                             !.color.s = (world[e].color.s * PredictedSaturation)
                                            \div DefaultSaturation,
                             !.added_predicted = FALSE]
                    ELSE world[e]]
    /\ Ran("handle_predicted_spawn")
    /\ UNCHANGED <<schedule, commands, tick, frame_ticks, client_id,
                   metadata_changed, keypress, window, input_buffer, submitted, events_a,
                   events_b, event_count, signal, readers, next_entity, applied>>

\* handle_predicted_spawn, lines 328-332: Added<Predicted> holds once, in the
\* first run after the component was added.
handle_predicted_spawn ==
    /\ CanRun("handle_predicted_spawn")
    /\ world' = [e \in Entities |->
                    IF world[e].predicted /\ world[e].added_predicted
                    THEN [world[e] EXCEPT !.color.s = PredictedSaturation,
                                          !.added_predicted = FALSE]
                    ELSE world[e]]
    /\ Ran("handle_predicted_spawn")
    /\ UNCHANGED <<schedule, commands, tick, frame_ticks, client_id,
                   metadata_changed, keypress, window, input_buffer, submitted, events_a,
                   events_b, event_count, signal, readers, next_entity, applied>>

\* handle_interpolated_spawn with the filter
\* Or<(Added<Interpolated>, Added<Predicted>)>.
handle_interpolated_spawn_AnyAdded ==
    /\ CanRun("handle_interpolated_spawn")
    /\ world' = [e \in Entities |->
                    IF \/ world[e].interpolated /\ world[e].added_interpolated
                       \/ world[e].predicted /\ world[e].added_predicted
                    THEN [world[e] EXCEPT !.color.s = InterpolatedSaturation,
                                          !.added_interpolated = FALSE]
                    ELSE world[e]]
    /\ Ran("handle_interpolated_spawn")
    /\ UNCHANGED <<schedule, commands, tick, frame_ticks, client_id,
                   metadata_changed, keypress, window, input_buffer, submitted, events_a,
                   events_b, event_count, signal, readers, next_entity, applied>>

\* handle_interpolated_spawn, lines 337-343.
handle_interpolated_spawn ==
    /\ CanRun("handle_interpolated_spawn")
    /\ world' = [e \in Entities |->
                    IF world[e].interpolated /\ world[e].added_interpolated
                    THEN [world[e] EXCEPT !.color.s = InterpolatedSaturation,
                                          !.added_interpolated = FALSE]
                    ELSE world[e]]
    /\ Ran("handle_interpolated_spawn")
    /\ UNCHANGED <<schedule, commands, tick, frame_ticks, client_id,
                   metadata_changed, keypress, window, input_buffer, submitted, events_a,
                   events_b, event_count, signal, readers, next_entity, applied>>

\* ------------------------------------------------------------ specification
Next ==
    \/ First
    \/ RunFixedTick
    \/ RunUpdate
    \/ ApplyCommand
    \/ EndSchedule
    \/ PostUpdate
    \/ ConnectionEstablished
    \/ \E e \in Entities : ServerAck(e)
    \/ RemoteSpawn
    \/ \E e \in Entities : RollbackWindowClosed(e)
    \/ write_input_event
    \/ spawn_cursor
    \/ buffer_input
    \/ player_movement
    \/ delete_player
    \/ spawn_player
    \/ cursor_movement
    \/ handle_predicted_spawn
    \/ handle_interpolated_spawn

Spec == Init /\ [][Next]_vars

\* ================================================================= claims
\* The player entities carrying our PlayerId, by role.  An entity spawned by
\* spawn_player is PrePredicted until the server acknowledges it.
Owned == {e \in Players : client_id # NoId /\ world[e].owner = client_id}
PrePredicted ==
    {e \in Owned : world[e].should_be_predicted /\ world[e].confirmed_entity = 0}
Predicted == {e \in Owned : world[e].predicted /\ world[e].confirmed_entity # 0}
Confirmed == {e \in Owned : world[e].confirmed}
Interpolated == {e \in Owned : world[e].interpolated}

\* The step runs system sys.
Runs(sys) == sys \in pending /\ sys \notin pending'

\* The step applies the command at the head of the queue.
Applies(op) ==
    /\ pending = {} /\ commands # <<>> /\ Head(commands).op = op
    /\ commands' = Tail(commands)

\* C1: once Update's commands are applied, the Spawn inputs delivered so far
\* (on consecutive ticks, however the ticks fall into frames) have left at
\* most one entity spawned by spawn_player for the local identity.
C1_SpawnGuardIdempotence ==
    schedule = "PostUpdate" =>
        Cardinality({e \in Owned : world[e].should_be_predicted}) <= 1

\* C2: in every state the local identity has at most one entity in each role:
\* PrePredicted, Predicted, Confirmed, Interpolated.
C2_OneEntityPerRole ==
    /\ Cardinality(PrePredicted) <= 1
    /\ Cardinality(Predicted) <= 1
    /\ Cardinality(Confirmed) <= 1
    /\ Cardinality(Interpolated) <= 1

\* C3: delete_player changes no entity and queues only prediction_despawn
\* requests; applying such a request removes nothing and changes only the
\* marker of its entity, which keeps every other component; an entity leaves
\* the world only when the replication layer reports the rollback window of
\* a marked entity closed.
C3_TwoPhaseDespawn ==
    [][/\ Runs("delete_player") =>
            /\ world' = world
            /\ \A i \in DOMAIN commands' :
                  i > Len(commands) =>
                     /\ commands'[i].op = "prediction_despawn"
                     /\ commands'[i].entity \in Owned
       /\ Applies("prediction_despawn") =>
            /\ DOMAIN world' = DOMAIN world
            /\ \A e \in Entities :
                  world'[e] = [world[e] EXCEPT !.marker = world'[e].marker]
            /\ LET e == Head(commands).entity
               IN  e \in Entities => world'[e].marker.present
       /\ \A e \in Entities :
            e \notin DOMAIN world' =>
               /\ Receiving
               /\ \E m \in Entities :
                     /\ world[m].marker.present
                     /\ e \in {m, world[m].confirmed_entity}
      ]_vars

\* C3 witness: a despawn was requested at an earlier tick and the entity is
\* still in the world, marked, while a later fixed step has run.
C3_Witness ==
    \E e \in Owned :
        /\ world[e].marker.present
        /\ world[e].marker.death_tick < tick
        /\ "player_movement" \in ran

\* The four steps of the ordering guarantee.
StepOf(sys) ==
    CASE sys = "buffer_input" -> 1
      [] sys = "player_movement" -> 2
      [] sys \in {"spawn_player", "delete_player"} -> 3
      [] sys \in {"handle_predicted_spawn", "handle_interpolated_spawn"} -> 4
      [] OTHER -> 0

\* What the registration orders: buffer_input, then the FixedUpdate systems,
\* then the Update systems.
PhaseOf(sys) ==
    CASE sys = "buffer_input" -> 1
      [] sys \in {"player_movement", "delete_player"} -> 2
      [] sys \in {"spawn_player", "handle_predicted_spawn",
                  "handle_interpolated_spawn"} -> 3
      [] OTHER -> 0

Ordered == {sys \in DOMAIN Registration : StepOf(sys) > 0}

\* C4 as stated: in a frame with a fixed step, whenever a system runs, every
\* system of an earlier step (record-intent, apply-movement, lifecycle,
\* presentation) has already run since the tick advanced.
C4_FourStepOrder ==
    [][\A sys \in Ordered :
          Runs(sys) /\ frame_ticks > 0 =>
             \A r \in Ordered : StepOf(r) < StepOf(sys) => r \in ran]_vars

\* C4 amended: in a frame with a fixed step, buffer_input runs before
\* player_movement and delete_player, and these run before spawn_player and
\* the two presentation handlers; inside either group the order is free.
C4_PhaseOrder ==
    [][\A sys \in Ordered :
          Runs(sys) /\ frame_ticks > 0 =>
             \A r \in Ordered : PhaseOf(r) < PhaseOf(sys) => r \in ran]_vars

\* C4 witness: delete_player has run in a fixed step before player_movement.
C4_Witness ==
    /\ schedule = "FixedUpdate"
    /\ "delete_player" \in ran
    /\ "player_movement" \in pending
    /\ "buffer_input" \in ran

\* C5: the ticks stamped on the submitted inputs increase strictly (no tick
\* gets two inputs, none is stamped with a tick before an earlier one), there
\* is one submission per fixed step, and once buffer_input has run in a fixed
\* step the newest input is stamped with the current tick.
C5_OneInputPerTick ==
    /\ \A i, j \in DOMAIN submitted : i < j => submitted[i] < submitted[j]
    /\ \A i \in DOMAIN submitted : submitted[i] <= tick
    /\ Len(submitted) = IF "buffer_input" \in pending THEN tick - 1 ELSE tick
    /\ ("buffer_input" \notin pending /\ tick > 0) =>
          /\ submitted[Len(submitted)] = tick
          /\ input_buffer.tick = tick

\* C5 witness: two fixed steps have each submitted their input.
C5_Witness ==
    /\ Len(submitted) >= 2
    /\ "buffer_input" \in ran
    /\ frame_ticks = 2

\* The encoder on every key combination: a fixed step is about to run
\* buffer_input with any subset of the KeyCodes held down.
EncoderInit ==
    /\ schedule = "FixedPreUpdate"
    /\ pending = SystemsIn("FixedPreUpdate")
    /\ commands = <<>>
    /\ tick = 1
    /\ frame_ticks = 1
    /\ client_id \in {NoId, LocalId}
    /\ metadata_changed = FALSE
    /\ keypress \in SUBSET KeyCodes
    /\ window = NoWindow
    /\ input_buffer = [tick |-> 0, input |-> Absent]
    /\ submitted = <<>>
    /\ events_a = <<>>
    /\ events_b = <<>>
    /\ event_count = 0
    /\ signal = FALSE
    /\ readers = [sys \in {"player_movement", "spawn_player", "delete_player"} |-> 0]
    /\ world = <<>>
    /\ next_entity = 1
    /\ ran = {}
    /\ applied = <<>>

EncoderNext == buffer_input \/ write_input_event

SpecEncoder == EncoderInit /\ [][EncoderNext]_vars

\* The six signals of the claim, from the keys held down.
SignalUp == keypress \cap {"KeyW", "ArrowUp"} # {}
SignalDown == keypress \cap {"KeyS", "ArrowDown"} # {}
SignalLeft == keypress \cap {"KeyA", "ArrowLeft"} # {}
SignalRight == keypress \cap {"KeyD", "ArrowRight"} # {}
SignalDelete == "KeyK" \in keypress
SignalSpawn == "Space" \in keypress
AnyDirection == SignalUp \/ SignalDown \/ SignalLeft \/ SignalRight

\* C6: once buffer_input has run in a fixed step, the one input it submitted
\* for the tick follows the precedence: a direction signal gives Direction
\* with exactly the active flags; else delete gives Delete; else spawn gives
\* Spawn; else None.
C6_InputPrecedence ==
    (schedule = "FixedPreUpdate" /\ "buffer_input" \notin pending) =>
        LET input == BufferGet(tick)
        IN  /\ Len(submitted) = tick
            /\ AnyDirection =>
                  /\ input.type = "Direction"
                  /\ input.up = SignalUp /\ input.down = SignalDown
                  /\ input.left = SignalLeft /\ input.right = SignalRight
            /\ (~AnyDirection /\ SignalDelete) => input = Inputs_Delete
            /\ (~AnyDirection /\ ~SignalDelete /\ SignalSpawn) =>
                  input = Inputs_Spawn
            /\ (~AnyDirection /\ ~SignalDelete /\ ~SignalSpawn) =>
                  input = Inputs_None

\* C6 witness: delete and spawn are both held with no direction key, and
\* buffer_input has submitted Delete.
C6_Witness ==
    /\ schedule = "FixedPreUpdate" /\ "buffer_input" \notin pending
    /\ keypress = {"KeyK", "Space"}
    /\ BufferGet(tick) = Inputs_Delete

\* C7: what player_movement applied in the current fixed step is exactly one
\* event, the one carrying the input buffer_input recorded for this tick.
C7_MovementUsesTickInput ==
    /\ \A i \in DOMAIN applied :
          /\ applied[i].tick = tick
          /\ applied[i].input = BufferGet(tick)
          /\ applied[i].input # Absent
    /\ Len(applied) <= 1
    /\ (schedule = "FixedUpdate" /\ "player_movement" \notin pending) =>
          Len(applied) = 1

\* C7 witness: in the second fixed step of a frame player_movement has moved
\* a predicted entity with that step's input.
C7_Witness ==
    /\ schedule = "FixedUpdate" /\ "player_movement" \notin pending
    /\ frame_ticks = 2
    /\ Len(applied) = 1 /\ applied[1].input.type = "Direction"
    /\ \E e \in Owned : world[e].predicted /\ world[e].pos # <<0, 0>>

RightOnly ==
    [type |-> "Direction", up |-> FALSE, down |-> FALSE, left |-> FALSE,
     right |-> TRUE]

\* The entities spawn_player created for the Spawn input of tick t, in the
\* frame of that tick, for the local identity, and not yet acknowledged.
SpawnedAt(t) ==
    {e \in PrePredicted : world[e].born = t /\ world[e].spawned_at = t}

\* C8: when the tick after a Spawn carries Direction{right} and
\* player_movement has run for it, the still pre-predicted entity that Spawn
\* created stands one step to the right of (0,0), its y unchanged.
C8_SpawnThenMoveRight ==
    (tick > 0 /\ "player_movement" \in ran /\ BufferGet(tick) = RightOnly) =>
        \A e \in SpawnedAt(tick - 1) : world[e].pos = <<Step, 0>>

\* C8 witness: such an entity exists after the movement of the next tick.
C8_Witness ==
    /\ tick > 0 /\ "player_movement" \in ran /\ BufferGet(tick) = RightOnly
    /\ SpawnedAt(tick - 1) # {}

\* C9: applying a spawn command of spawn_player adds exactly one entity: a
\* player owned by the local identity, at (0,0), with the color derived from
\* the identity, carrying the pre-predicted marker and no role tag; every
\* other entity is unchanged.
C9_SpawnedEntity ==
    [][(schedule = "Update" /\ Applies("spawn")) =>
          /\ DOMAIN world' = Entities \cup {next_entity}
          /\ next_entity \notin Entities
          /\ \A e \in Entities : world'[e] = world[e]
          /\ LET new == world'[next_entity]
             IN  /\ new.kind = "player"
                 /\ client_id # NoId /\ new.owner = client_id
                 /\ new.pos = <<0, 0>>
                 /\ new.color = color_from_id(client_id)
                 /\ new.color # color_from_id(RemoteId)
                 /\ new.should_be_predicted
                 /\ ~new.predicted /\ ~new.confirmed /\ ~new.interpolated
                 /\ ~new.marker.present
      ]_vars

\* C9 witness: the spawned entity is in the world beside other entities.
C9_Witness ==
    /\ schedule = "PostUpdate"
    /\ \E e \in PrePredicted : world[e].spawned_at = tick /\ ~world[e].predicted
    /\ \E e \in Entities : world[e].owner = RemoteId

\* C10: when delete_player runs while the local identity owns no player
\* entity, it queues no command and changes no entity.
C10_DeleteWithoutPlayer ==
    [][(Runs("delete_player") /\ Owned = {}) =>
          /\ commands' = commands
          /\ world' = world]_vars

\* C10 witness: delete_player has run on a Delete input with the identity
\* set, no player of ours in the world and another client's player present.
C10_Witness ==
    /\ schedule = "FixedUpdate" /\ "delete_player" \notin pending
    /\ client_id # NoId /\ Owned = {}
    /\ BufferGet(tick) = Inputs_Delete
    /\ readers["delete_player"] = event_count
    /\ \E e \in Players : world[e].owner = RemoteId /\ world[e].interpolated
    /\ commands = <<>>

\* The spawn commands the step adds to the queue.
NewCommands ==
    {commands'[i] : i \in (Len(commands) + 1)..Len(commands')}

\* The unread events spawn_player can act on in this step.
EventsOfTick(t) ==
    {ev \in {Unread("spawn_player")[i] : i \in DOMAIN Unread("spawn_player")} :
        ev.tick = t}

\* C11: a Spawn input delivered while a player of the local identity existed
\* never makes spawn_player queue a spawn, in the frame of its delivery or in
\* any later frame.
C11_GuardedSpawnIsNoOp ==
    [][Runs("spawn_player") =>
          \A c \in NewCommands :
             \A ev \in EventsOfTick(c.bundle.born) : ~ev.owned]_vars

\* The entities the client itself created: the players spawn_player spawned
\* and the cursors spawn_cursor spawned.
ClientCreated ==
    {e \in Entities :
        \/ world[e].kind = "player" /\ world[e].should_be_predicted
        \/ world[e].kind = "cursor" /\ ~world[e].confirmed
                                    /\ ~world[e].interpolated}

\* The unread Delete events delete_player can act on in this step.
UnreadDeletes ==
    {ev \in {Unread("delete_player")[i] : i \in DOMAIN Unread("delete_player")} :
        ev.input = Inputs_Delete}

\* C12: while the identity is unset the client has created no entity and
\* queued no command; spawn_player, delete_player, cursor_movement and
\* spawn_cursor run with the identity unset change neither the world nor the
\* command queue; and an input delivered while the identity was unset never
\* makes spawn_player queue a spawn or delete_player queue a despawn request.
C12_NotReadyGate ==
    [][/\ client_id = NoId => ClientCreated = {} /\ commands = <<>>
       /\ \A sys \in {"spawn_player", "delete_player", "cursor_movement",
                      "spawn_cursor"} :
             (Runs(sys) /\ client_id = NoId) =>
                 world' = world /\ commands' = commands
       /\ Runs("spawn_player") =>
             \A c \in NewCommands :
                \A ev \in EventsOfTick(c.bundle.born) : ev.ready
       /\ (Runs("delete_player") /\ NewCommands # {}) =>
             \A ev \in UnreadDeletes : ev.ready
      ]_vars

\* C13: a run of player_movement neither adds nor removes an entity; it
\* leaves every entity without the Predicted tag (Confirmed and Interpolated
\* players, every cursor) as it was, and changes nothing but the position of
\* a player with the tag.
C13_MovementOnlyPredicted ==
    [][Runs("player_movement") =>
          /\ DOMAIN world' = DOMAIN world
          /\ \A e \in Entities :
                IF world[e].kind = "player" /\ world[e].predicted
                THEN world'[e] = [world[e] EXCEPT !.pos = world'[e].pos]
                ELSE world'[e] = world[e]
      ]_vars

\* C13 witness: player_movement has moved the predicted player on a
\* Direction input while its Confirmed copy, another client's Interpolated
\* player and the cursor were in the world and stand where they stood.
C13_Witness ==
    /\ schedule = "FixedUpdate" /\ "player_movement" \notin pending
    /\ Len(applied) = 1 /\ applied[1].input.type = "Direction"
    /\ \E e \in Predicted : world[e].pos # <<0, 0>>
    /\ \E e \in Confirmed : world[e].pos = <<0, 0>>
    /\ \E e \in Players : world[e].interpolated /\ world[e].pos = <<0, 0>>
    /\ \E e \in Cursors : world[e].owner = client_id

\* ------------------------------------------------- repeated role assignment
\* The replication layer assigns a role tag again to an entity that already
\* carried it (the component is removed and re-inserted): Added<Predicted>,
\* or Added<Interpolated>, holds for the entity once more.
RoleReassigned(e) ==
    /\ Receiving
    /\ e \in Players
    /\ \/ /\ world[e].predicted /\ ~world[e].added_predicted
          /\ world' = [world EXCEPT ![e].added_predicted = TRUE]
       \/ /\ world[e].interpolated /\ ~world[e].added_interpolated
          /\ world' = [world EXCEPT ![e].added_interpolated = TRUE]
    /\ UNCHANGED <<schedule, pending, commands, tick, frame_ticks, client_id,
                   metadata_changed, keypress, window, input_buffer, submitted,
                   events_a, events_b, event_count, signal, readers,
                   next_entity, ran, applied>>

\* The end of the frame in which identity LocalId spawned its player on the
\* Spawn input of tick 1: the cursor and the pre-predicted player are in the
\* world, the player not yet tagged.
RolesInit ==
    LET ev == [id |-> 0, tick |-> 1, input |-> Inputs_Spawn,
               ready |-> TRUE, owned |-> FALSE]
    IN  /\ schedule = "PostUpdate"
        /\ pending = {}
        /\ commands = <<>>
        /\ tick = 1
        /\ frame_ticks = 1
        /\ client_id = LocalId
        /\ metadata_changed = FALSE
        /\ keypress = {}
        /\ window = NoWindow
        /\ input_buffer = [tick |-> 1, input |-> Inputs_Spawn]
        /\ submitted = <<1>>
        /\ events_a = <<>>
        /\ events_b = <<ev>>
        /\ event_count = 1
        /\ signal = TRUE
        /\ readers = [sys \in {"player_movement", "spawn_player",
                               "delete_player"} |-> 1]
        /\ world = <<CursorBundle(LocalId, <<0, 0>>, color_from_id(LocalId)),
                     [PlayerBundle(LocalId, <<0, 0>>, color_from_id(LocalId))
                         EXCEPT !.should_be_predicted = TRUE, !.born = 1,
                                !.spawned_at = 1]>>
        /\ next_entity = 3
        /\ ran = {"buffer_input", "write_input_event", "player_movement",
                  "delete_player", "cursor_movement", "spawn_player",
                  "handle_predicted_spawn", "handle_interpolated_spawn"}
        /\ applied = <<ev>>

\* Rendering frames without a fixed step, with the replication layer
\* assigning roles, and assigning them again.
RolesNext ==
    \/ First
    \/ RunUpdate
    \/ EndSchedule
    \/ PostUpdate
    \/ \E e \in Entities : ServerAck(e)
    \/ RemoteSpawn
    \/ \E e \in Entities : RoleReassigned(e)
    \/ spawn_cursor
    \/ spawn_player
    \/ cursor_movement
    \/ handle_predicted_spawn
    \/ handle_interpolated_spawn

SpecRoles == RolesInit /\ [][RolesNext]_vars

\* C14: however often a role is assigned to an entity, once the handler has
\* run the saturation is the fixed level of the role (0.4 for Predicted, 0.1
\* for Interpolated) and before that it is the value the entity was created
\* with or that level, never a further reduced one; the hue stays the one
\* derived from the identity; and a run of a handler leaves the color of
\* every entity without a new role assignment as it was.
C14_SaturationOneShot ==
    [][/\ \A e \in Players :
             /\ world[e].color.h = color_from_id(world[e].owner).h
             /\ world[e].predicted =>
                   world[e].color.s =
                      IF world[e].added_predicted /\ world[e].color.s # PredictedSaturation
                      THEN DefaultSaturation ELSE PredictedSaturation
             /\ world[e].interpolated =>
                   world[e].color.s =
                      IF world[e].added_interpolated
                         /\ world[e].color.s # InterpolatedSaturation
                      THEN DefaultSaturation ELSE InterpolatedSaturation
             /\ (~world[e].predicted /\ ~world[e].interpolated) =>
                   world[e].color.s = DefaultSaturation
       /\ Runs("handle_predicted_spawn") =>
             \A e \in Entities :
                IF world[e].predicted /\ world[e].added_predicted
                THEN world'[e].color.s = PredictedSaturation
                ELSE world'[e] = world[e]
       /\ Runs("handle_interpolated_spawn") =>
             \A e \in Entities :
                IF world[e].interpolated /\ world[e].added_interpolated
                THEN world'[e].color.s = InterpolatedSaturation
                ELSE world'[e] = world[e]
      ]_vars

\* C14 witness: both handlers are about to run again on entities they have
\* already adjusted and whose role was assigned once more, beside a Confirmed
\* copy that never got a role assignment.
C14_Witness ==
    /\ schedule = "Update"
    /\ {"handle_predicted_spawn", "handle_interpolated_spawn"} \subseteq pending
    /\ \E e \in Players :
          /\ world[e].predicted /\ world[e].added_predicted
          /\ world[e].color.s = PredictedSaturation
    /\ \E e \in Players :
          /\ world[e].interpolated /\ world[e].added_interpolated
          /\ world[e].color.s = InterpolatedSaturation
    /\ \E e \in Players : world[e].confirmed

\* ------------------------------------------------- the session and cursors
\* Cursors in the world at most (caps the metadata changes and the remote
\* cursors of SpecCursors).
MaxCursors == 3

\* The session layer writes GlobalMetadata again while the identity is set
\* (the same identity, as after a reconnection): is_changed() holds again.
MetadataChanged ==
    /\ Receiving
    /\ client_id # NoId
    /\ ~metadata_changed
    /\ Cardinality(Cursors) < MaxCursors
    /\ metadata_changed' = TRUE
    /\ UNCHANGED <<schedule, pending, commands, tick, frame_ticks, client_id,
                   keypress, window, input_buffer, submitted, events_a,
                   events_b, event_count, signal, readers, world, next_entity,
                   ran, applied>>

\* Another client's cursor is replicated to this client: either as a
\* Confirmed entity, or as a plain replicated entity without a role tag.
RemoteCursor ==
    /\ Receiving
    /\ \A e \in Cursors : world[e].owner # RemoteId
    /\ Cardinality(Cursors) < MaxCursors
    /\ \E tagged \in BOOLEAN :
          world' = Spawned(world,
                           [CursorBundle(RemoteId, <<0, 0>>,
                                         color_from_id(RemoteId))
                               EXCEPT !.confirmed = tagged])
    /\ next_entity' = next_entity + 1
    /\ UNCHANGED <<schedule, pending, commands, tick, frame_ticks, client_id,
                   metadata_changed, keypress, window, input_buffer, submitted,
                   events_a, events_b, event_count, signal, readers, ran,
                   applied>>

\* Rendering frames without a fixed step, with the session layer changing
\* the metadata and other clients' cursors arriving.
CursorsNext ==
    \/ First
    \/ RunUpdate
    \/ ApplyCommand
    \/ EndSchedule
    \/ PostUpdate
    \/ ConnectionEstablished
    \/ MetadataChanged
    \/ RemoteCursor
    \/ spawn_cursor
    \/ spawn_player
    \/ cursor_movement
    \/ handle_predicted_spawn
    \/ handle_interpolated_spawn

SpecCursors == Init /\ [][CursorsNext]_vars

\* The cursors the client spawned for its identity.
OwnedCursors ==
    {e \in Cursors : /\ client_id # NoId /\ world[e].owner = client_id
                     /\ ~world[e].confirmed /\ ~world[e].interpolated}

\* C15: once the identity is acquired there is never more than one cursor
\* of the local identity, and from the end of the PreUpdate in which it was
\* acquired there is exactly one, whatever metadata changes follow.
C15_ExactlyOneCursor ==
    client_id # NoId =>
        /\ Cardinality(OwnedCursors) <= 1
        /\ schedule # "PreUpdate" => Cardinality(OwnedCursors) = 1

\* C16: when cursor_movement runs with the identity set and finds a window
\* with a pointer position, every cursor of the local identity holds the
\* mapped position afterwards, whichever other cursors its query holds and
\* in whichever order it visits them.
C16_OwnedCursorFollowsPointer ==
    [][(/\ Runs("cursor_movement")
        /\ client_id # NoId
        /\ window'.present /\ window'.has_cursor) =>
          \A e \in OwnedCursors :
             world'[e].pos = window_relative_mouse_position(window').pos]_vars

\* ------------------------------------------------------ the pointer mapping
\* The longest window side of SpecWindow; the sides are the even numbers up
\* to it, the raw pointer positions every pixel from 0 to the side.
MaxWindowSide == 4

Sides == {n \in 1..MaxWindowSide : n % 2 = 0}

WindowSpace ==
    {NoWindow}
    \cup {[present |-> TRUE, width |-> w, height |-> h,
           has_cursor |-> FALSE, x |-> 0, y |-> 0] : w \in Sides, h \in Sides}
    \cup UNION {{[present |-> TRUE, width |-> w, height |-> h,
                  has_cursor |-> TRUE, x |-> x, y |-> y] :
                    x \in 0..w, y \in 0..h} : w \in Sides, h \in Sides}

\* Update begins in a frame without a fixed step, after the handshake: the
\* cursor of the local identity is in the world, at (0,0); the window is any
\* of WindowSpace.
WindowInit ==
    /\ schedule = "Update"
    /\ pending = SystemsIn("Update")
    /\ commands = <<>>
    /\ tick = 0
    /\ frame_ticks = 0
    /\ client_id = LocalId
    /\ metadata_changed = FALSE
    /\ keypress = {}
    /\ window \in WindowSpace
    /\ input_buffer = [tick |-> 0, input |-> Absent]
    /\ submitted = <<>>
    /\ events_a = <<>>
    /\ events_b = <<>>
    /\ event_count = 0
    /\ signal = FALSE
    /\ readers = [sys \in {"player_movement", "spawn_player", "delete_player"} |-> 0]
    /\ world = <<CursorBundle(LocalId, <<0, 0>>, color_from_id(LocalId))>>
    /\ next_entity = 2
    /\ ran = {}
    /\ applied = <<>>

\* cursor_movement, lines 263-287, in the window of the state.
cursor_movement_in_window ==
    /\ CanRun("cursor_movement")
    /\ IF client_id = NoId
       THEN UNCHANGED world
       ELSE \E es \in Orders(CursorQuery(world)) :
               world' = CursorLoop(world, es, client_id, window)
    /\ Ran("cursor_movement")
    /\ UNCHANGED <<schedule, commands, tick, frame_ticks, client_id,
                   metadata_changed, keypress, window, input_buffer, submitted,
                   events_a, events_b, event_count, signal, readers,
                   next_entity, applied>>

WindowNext == cursor_movement_in_window

SpecWindow == WindowInit /\ [][WindowNext]_vars

\* C17: for a window of size (W,H) with the pointer at raw (x,y),
\* window_relative_mouse_position returns (x - W/2, -(y - H/2)), and
\* cursor_movement leaves the cursor there; without a pointer position it
\* returns none, and the cursor stays where it was.
C17_PointerMapping ==
    LET r == window_relative_mouse_position(window)
        done == "cursor_movement" \notin pending
    IN  /\ window.has_cursor =>
              /\ r.some
              /\ 2 * r.pos[1] = 2 * window.x - window.width
              /\ 2 * r.pos[2] = -(2 * window.y - window.height)
        /\ ~window.has_cursor => ~r.some
        /\ \A e \in OwnedCursors :
              IF done /\ window.present /\ window.has_cursor
              THEN /\ 2 * world[e].pos[1] = 2 * window.x - window.width
                   /\ 2 * world[e].pos[2] = -(2 * window.y - window.height)
              ELSE world[e].pos = <<0, 0>>

\* C17 witness: cursor_movement has run with the pointer at the bottom left
\* pixel of a window two wide and four high.
C17_Witness ==
    /\ "cursor_movement" \notin pending
    /\ window.present /\ window.has_cursor
    /\ window.width = 2 /\ window.height = 4
    /\ window.x = 0 /\ window.y = 4
    /\ \E e \in OwnedCursors : world[e].pos = <<-1, -2>>

\* C18: every command a run of delete_player queues is a despawn request for
\* a player entity that carries the local identity and is neither Confirmed
\* nor Interpolated; and no entity of another identity, and no Confirmed or
\* Interpolated copy, is ever marked for despawn.
C18_DeleteTargetsOwnedOnly ==
    [][/\ Runs("delete_player") =>
             \A c \in NewCommands :
                /\ c.op = "prediction_despawn"
                /\ c.entity \in Players
                /\ client_id # NoId
                /\ world[c.entity].owner = client_id
                /\ ~world[c.entity].confirmed
                /\ ~world[c.entity].interpolated
       /\ \A e \in Entities :
             world[e].marker.present =>
                /\ world[e].kind = "player"
                /\ world[e].owner = client_id
                /\ ~world[e].confirmed /\ ~world[e].interpolated
      ]_vars

\* C18 witness: delete_player has queued a request for the predicted player
\* on a Delete input while that player's Confirmed copy and another client's
\* Confirmed and Interpolated players were in the world.
C18_Witness ==
    /\ schedule = "FixedUpdate" /\ "delete_player" \notin pending
    /\ BufferGet(tick) = Inputs_Delete
    /\ commands # <<>>
    /\ \A i \in DOMAIN commands : commands[i].entity \in Predicted
    /\ Confirmed # {}
    /\ \E e \in Players : world[e].owner = RemoteId /\ world[e].interpolated
    /\ \E e \in Players : world[e].owner = RemoteId /\ world[e].confirmed

\* ------------------------------------------------ the systems as functions
\* What a phase's systems share: the world, the command queue and the
\* EventReaders, as the record [w, c, r].  Each system below is the function
\* from that record to the record after its run (win is the window
\* cursor_movement finds, es the order in which its query yields the cursors).
Shared == [w |-> world, c |-> commands, r |-> readers]

UnreadAt(r, sys) ==
    SelectSeq(events_a \o events_b, LAMBDA e : e.id >= r[sys])

Effect(sys, st, win, es) ==
    CASE sys = "player_movement" ->
           [st EXCEPT
              !.w = [e \in DOMAIN st.w |->
                        IF e \in MovementQuery(st.w)
                        THEN [st.w[e] EXCEPT
                                !.pos = MoveAll(st.w[e].pos,
                                                UnreadAt(st.r, sys))]
                        ELSE st.w[e]],
              !.r = [st.r EXCEPT ![sys] = event_count]]
      [] sys = "delete_player" ->
           IF client_id = NoId THEN st
           ELSE [st EXCEPT
                   !.c = st.c \o DeleteCommands(DeleteTargets(st.w, client_id),
                                                UnreadAt(st.r, sys)),
                   !.r = [st.r EXCEPT ![sys] = event_count]]
      [] sys = "spawn_player" ->
           IF client_id = NoId \/ OwnsPlayer(st.w, client_id) THEN st
           ELSE [st EXCEPT
                   !.c = st.c \o SpawnCommands(client_id, UnreadAt(st.r, sys)),
                   !.r = [st.r EXCEPT ![sys] = event_count]]
      [] sys = "cursor_movement" ->
           IF client_id = NoId THEN st
           ELSE [st EXCEPT !.w = CursorLoop(st.w, es, client_id, win)]
      [] sys = "handle_predicted_spawn" ->
           [st EXCEPT
              !.w = [e \in DOMAIN st.w |->
                        IF st.w[e].predicted /\ st.w[e].added_predicted
                        THEN [st.w[e] EXCEPT !.color.s = PredictedSaturation,
                                             !.added_predicted = FALSE]
                        ELSE st.w[e]]]
      [] sys = "handle_interpolated_spawn" ->
           [st EXCEPT
              !.w = [e \in DOMAIN st.w |->
                        IF st.w[e].interpolated /\ st.w[e].added_interpolated
                        THEN [st.w[e] EXCEPT !.color.s = InterpolatedSaturation,
                                             !.added_interpolated = FALSE]
                        ELSE st.w[e]]]
      [] OTHER -> st

\* The attributes of entities that differ between the world before a
\* system's run and the world after it: <<entity, attribute>>.
Changed(before, after) ==
    {p \in {e \in DOMAIN before : after[e] # before[e]} \X (DOMAIN Blank) :
        after[p[1]][p[2]] # before[p[1]][p[2]]}

\* The client's systems of the two phases the claim names.
Phase(s) ==
    IF s = "FixedUpdate" THEN {"player_movement", "delete_player"}
    ELSE IF s = "Update"
    THEN {"cursor_movement", "spawn_player", "handle_predicted_spawn",
          "handle_interpolated_spawn"}
    ELSE {}

\* C19: every step of a system s1 of the two phases is the function Effect
\* of the shared state; and for every system s2 of the phase that is still
\* to run after it, s1 and s2 change no common attribute of a common entity
\* and running s2 before s1 gives the same shared state as running s1 before
\* s2, so every order of the phase's systems ends in the same state.
C19_PhaseOrderIndependent ==
    [][\A s1 \in Phase(schedule) :
          Runs(s1) =>
             \A es \in Orders(CursorQuery(world)) :
                LET first == Effect(s1, Shared, window', es)
                    mine == Changed(world, first.w)
                IN  /\ [w |-> world', c |-> commands', r |-> readers'] = first
                    /\ \A s2 \in Phase(schedule) \cap pending' :
                          \A win \in IF s2 = "cursor_movement" THEN Windows
                                     ELSE {window'} :
                             LET other == Effect(s2, Shared, win, es)
                             IN  /\ mine \cap Changed(world, other.w) = {}
                                 /\ Effect(s2, first, win, es)
                                       = Effect(s1, other, window', es)
      ]_vars

\* C19 witness: in Update all four systems are still to run, with a newly
\* Predicted player, a newly Interpolated player, an unread Spawn input and
\* the cursor for them to act on; a fixed step of the frame ran
\* player_movement and delete_player.
C19_Witness ==
    /\ schedule = "Update"
    /\ Phase("Update") \subseteq pending
    /\ Phase("FixedUpdate") \subseteq ran
    /\ \E e \in Players : world[e].predicted /\ world[e].added_predicted
    /\ \E e \in Players : world[e].interpolated /\ world[e].added_interpolated
    /\ \E i \in DOMAIN Unread("spawn_player") :
          Unread("spawn_player")[i].input = Inputs_Spawn
    /\ OwnedCursors # {}

\* C20: a run of cursor_movement leaves every entity exactly as it was,
\* change mark included, unless a window with a pointer position is
\* available and the mapped position differs from the one the cursor
\* stores; in that case the only change is the cursor's position, set to
\* the mapped one and marked changed.
C20_CursorWriteOnlyOnDifference ==
    [][Runs("cursor_movement") =>
          LET mouse == window_relative_mouse_position(window')
          IN  /\ DOMAIN world' = Entities
              /\ \A e \in Entities :
                    \/ world'[e] = world[e]
                    \/ /\ e \in Cursors
                       /\ client_id # NoId
                       /\ window'.present /\ mouse.some
                       /\ world[e].pos # mouse.pos
                       /\ world'[e] = [world[e] EXCEPT !.pos = mouse.pos,
                                                       !.changed = TRUE]
      ]_vars

\* C20 witness: cursor_movement has run in a window whose pointer maps to
\* the position the owned cursor already holds, written in an earlier
\* frame, and the cursor is not marked changed.
C20_Witness ==
    /\ schedule = "Update" /\ "cursor_movement" \in ran
    /\ window.present /\ window.has_cursor
    /\ \E e \in OwnedCursors :
          /\ world[e].pos = window_relative_mouse_position(window).pos
          /\ world[e].pos # <<0, 0>>
          /\ ~world[e].changed

=============================================================================
